---- MODULE Spec2Model ----
(***************************************************************************)
(* Model of tech_trends_monitor.py: the five source adapters, the          *)
(* aggregation / ranking step compile_trends, send_email and run().        *)
(*                                                                         *)
(* Python values are encoded as follows.  A string field holds a string;   *)
(* None is the marker Null and an absent dictionary key is the marker      *)
(* Missing.  A numeric field holds a natural number; None is NoneP and an  *)
(* absent key is AbsentP.                                                  *)
(***************************************************************************)
EXTENDS Integers, Sequences, FiniteSets, TLC

\* ---------------------------------------------------------------- bounds
MaxLen    == 2      \* raw entries per response when one adapter is exercised
MaxCand   == 3      \* freely chosen candidates in front of the full pages
MaxPoints == 2      \* largest popularity value

\* ------------------------------------------------------ program constants
TopN       == 20    \* all_trends[:20]
DescSlice  == 100   \* repo['description'][:100]
HNPageSize == 10    \* hitsPerPage=10
RedditPage == 5     \* hot.json?limit=5

\* ------------------------------------------------------- value encoding
Null    == "<None>"
Missing == "<absent>"
NoneP   == 0 - 1
AbsentP == 0 - 2

\* bool(x) of a string-or-None value
Truthy(s) == s \notin {Null, Missing, ""}
\* d.get(key): an absent key reads as None
Get(v) == IF v = Missing THEN Null ELSE v
\* d.get(key, 0) of a numeric field
Get0(p) == IF p = AbsentP THEN 0 ELSE p
\* f"{x}" of a string-or-None value
Str(v) == IF v = Null THEN "None" ELSE v

SeqsUpTo(S, n) == UNION {[1..k -> S] : k \in 0..n}

Item(t, u, p, s) == [title |-> t, url |-> u, points |-> p, source |-> s]

\* ---------------------------------------------------------- Hacker News
RECURSIVE HNPosts(_)
HNPosts(hits) ==
    IF hits = <<>> THEN <<>>
    ELSE LET hit == Head(hits) IN
         (IF Truthy(Get(hit.title)) /\ Truthy(Get(hit.url))
            THEN <<Item(hit.title, hit.url, Get0(hit.points), "Hacker News")>>
            ELSE <<>>) \o HNPosts(Tail(hits))

\* resp.ok = FALSE: requests.get / response.json raised
HNRaises(resp) == ~resp.ok

get_hacker_news_ai_posts(resp) ==
    IF HNRaises(resp) THEN <<>> ELSE HNPosts(resp.hits)

\* --------------------------------------------------------------- Reddit
subreddits == <<"MachineLearning", "artificial", "datascience">>

RedditKept(post_data) == Truthy(Get(post_data.title)) /\ ~post_data.is_self

RECURSIVE RedditPosts(_, _)
RedditPosts(children, subreddit) ==
    IF children = <<>> THEN <<>>
    ELSE LET post_data == Head(children) IN
         (IF RedditKept(post_data)
            THEN <<Item(post_data.title,
                        "https://reddit.com" \o Str(post_data.permalink),
                        Get0(post_data.score),
                        "r/" \o subreddit)>>
            ELSE <<>>) \o RedditPosts(Tail(children), subreddit)

\* post_data['permalink'] of a kept post raises KeyError when the key is absent
RedditKeyError(children) ==
    \E i \in 1..Len(children) :
        RedditKept(children[i]) /\ children[i].permalink = Missing

\* the sub-query of one subreddit raises
RedditSubFails(r) == ~r.ok \/ RedditKeyError(r.children)

RECURSIVE RedditLoop(_, _)
RedditLoop(resps, k) ==
    IF k > Len(subreddits) THEN <<>>
    ELSE RedditPosts(resps[k].children, subreddits[k]) \o RedditLoop(resps, k + 1)

\* one try block around the whole loop: a raise in any sub-query leaves it
RedditRaises(resps) == \E k \in 1..Len(subreddits) : RedditSubFails(resps[k])

get_reddit_ml_posts(resps) ==
    IF RedditRaises(resps) THEN <<>> ELSE RedditLoop(resps, 1)

\* ---------------------------------------------------------------- arXiv
\* str.strip() on the titles that occur in the model
Strip(s) ==
    CASE s = " "   -> ""
      [] s = "  "  -> ""
      [] s = " T " -> "T"
      [] OTHER     -> s

RECURSIVE ArxivPapers(_)
ArxivPapers(entries) ==
    IF entries = <<>> THEN <<>>
    ELSE LET entry == Head(entries) IN
         <<Item(Strip(entry.title), entry.id, 0, "arXiv")>>
         \o ArxivPapers(Tail(entries))

\* entry.find(...) is None (Missing) or .text is None (Null): .strip raises
ArxivAttributeError(entries) ==
    \E i \in 1..Len(entries) : entries[i].title \in {Null, Missing}
                               \/ entries[i].id = Missing

ArxivRaises(resp) == ~resp.ok \/ ArxivAttributeError(resp.entries)

get_arxiv_papers(resp) ==
    IF ArxivRaises(resp) THEN <<>> ELSE ArxivPapers(resp.entries)

\* --------------------------------------------------------------- GitHub
LongDesc ==
    "xxxxxxxxxxxxxxxxxxxxxxxxxxxxxxxxxxxxxxxxxxxxxxxxxxxxxxxxxxxxxxxxxxxxxxxxxxxxxxxxxxxxxxxxxxxxxxxxxxxxy"
LongDescCut ==
    "xxxxxxxxxxxxxxxxxxxxxxxxxxxxxxxxxxxxxxxxxxxxxxxxxxxxxxxxxxxxxxxxxxxxxxxxxxxxxxxxxxxxxxxxxxxxxxxxxxxx"

\* s[:100] on the descriptions that occur in the model
Slice(s) == IF Len(s) > DescSlice THEN LongDescCut ELSE s

RepoTitle(repo) ==
    IF Truthy(Get(repo.description))
      THEN Str(repo.name) \o " - " \o Slice(repo.description) \o "..."
      ELSE repo.name

RECURSIVE GitHubRepos(_)
GitHubRepos(items) ==
    IF items = <<>> THEN <<>>
    ELSE LET repo == Head(items) IN
         <<Item(RepoTitle(repo), repo.html_url, Get0(repo.stargazers_count),
                "GitHub Trending")>>
         \o GitHubRepos(Tail(items))

\* repo['name'] / repo['html_url'] raise KeyError when the key is absent
GitHubKeyError(items) ==
    \E i \in 1..Len(items) : items[i].name = Missing \/ items[i].html_url = Missing

GitHubRaises(resp) == ~resp.ok \/ GitHubKeyError(resp.items)

get_github_trending(resp) ==
    IF GitHubRaises(resp) THEN <<>> ELSE GitHubRepos(resp.items)

\* -------------------------------------------------------------- NewsAPI
\* '[Removed]' in title, on the titles that occur in the model
HasRemoved(t) == t \in {"[Removed]", "T [Removed]"}

RECURSIVE NewsArticles(_)
NewsArticles(articles) ==
    IF articles = <<>> THEN <<>>
    ELSE LET article == Head(articles) IN
         (IF Truthy(Get(article.title)) /\ Truthy(Get(article.url))
             /\ ~HasRemoved(article.title)
            THEN <<Item(article.title, article.url, 0,
                        "News: " \o (IF article.name = Missing THEN "Unknown"
                                     ELSE Str(article.name)))>>
            ELSE <<>>) \o NewsArticles(Tail(articles))

\* the request is only made when the key is set
NewsRaises(key, resp) == Truthy(key) /\ ~resp.ok

get_newsapi_articles(key, resp) ==
    IF ~Truthy(key) THEN <<>>
    ELSE IF NewsRaises(key, resp) THEN <<>>
    ELSE IF resp.status # "ok" THEN <<>>
    ELSE NewsArticles(resp.articles)


\* ------------------------------------------------------- compile_trends
\* list.sort(key=points, reverse=True): stable, descending
RECURSIVE InsertDesc(_, _)
InsertDesc(sorted, x) ==
    IF sorted = <<>> THEN <<x>>
    ELSE IF Head(sorted).points >= x.points
           THEN <<Head(sorted)>> \o InsertDesc(Tail(sorted), x)
           ELSE <<x>> \o sorted

RECURSIVE SortDesc(_)
SortDesc(s) ==
    IF s = <<>> THEN <<>>
    ELSE InsertDesc(SortDesc(SubSeq(s, 1, Len(s) - 1)), s[Len(s)])

\* comparing None with anything raises TypeError; a list shorter than two
\* is never compared
SortRaises(s) == Len(s) >= 2 /\ \E i \in 1..Len(s) : s[i].points = NoneP

\* s[:20]
Top(s) == SubSeq(s, 1, IF Len(s) < TopN THEN Len(s) ELSE TopN)

UrlsOf(s) == {s[i].url : i \in 1..Len(s)}

\* ---------------------------------------------------------------- state
VARIABLES
    email_user, email_password, recipient_email, newsapi_key,  \* __init__
    pc,          \* position of the process inside run()
    called,      \* methods invoked so far in this run
    fetched,     \* what each adapter returned in this run
    failed,      \* adapters whose fetch raised (and was caught) in this run
    all_trends,  \* compile_trends: the concatenated candidates
    trends,      \* compile_trends: the returned list
    sent,        \* value returned by send_email: "unset", "True", "False"
    success,     \* value returned by run(): "unset", "True", "False"
    delivered,   \* urls of every list for which send_email returned True
    prev,        \* what the adapters returned in the preceding run, if it succeeded
    raw          \* raw response handed to an adapter exercised on its own

vars == <<email_user, email_password, recipient_email, newsapi_key, pc, called,
          fetched, failed, all_trends, trends, sent, success, delivered, prev,
          raw>>

Adapters == {"hn", "reddit", "arxiv", "github", "newsapi"}

NoFetch == [a \in Adapters |-> <<>>]
NoPrev  == [valid |-> FALSE, fetched |-> NoFetch]

EnvValues == {Null, "", "set"}


UrlA == "http://arxiv.org/abs/1"
UrlB == "https://github.com/o/r"

\* ------------------------------------ raw responses, adapter on its own
HNHits == [title : {Missing, "", "T"}, url : {Null, "", UrlA},
           points : {AbsentP, NoneP, 1}]
HNResponses ==
    {[ok |-> FALSE, hits |-> <<>>]}
    \cup {[ok |-> TRUE, hits |-> h] : h \in SeqsUpTo(HNHits, MaxLen)}

RedditChildren ==
    [title : {"", "T"}, is_self : {FALSE}, permalink : {Missing, "/p"}, score : {1}]
    \cup {[title |-> "T", is_self |-> TRUE, permalink |-> "/q", score |-> AbsentP]}
RedditSubResponses ==
    {[ok |-> FALSE, children |-> <<>>]}
    \cup {[ok |-> TRUE, children |-> c] : c \in SeqsUpTo(RedditChildren, 1)}
RedditResponses == [1..Len(subreddits) -> RedditSubResponses]

ArxivEntries == [title : {Null, " ", " T ", "T"}, id : {Null, Missing, UrlA}]
ArxivResponses ==
    {[ok |-> FALSE, entries |-> <<>>]}
    \cup {[ok |-> TRUE, entries |-> e] : e \in SeqsUpTo(ArxivEntries, MaxLen)}

GitHubItems == [name : {Missing, "", "repo"}, description : {Null, "desc", LongDesc},
                html_url : {"", UrlB}, stargazers_count : {AbsentP, 2}]
GitHubResponses ==
    {[ok |-> FALSE, items |-> <<>>]}
    \cup {[ok |-> TRUE, items |-> r] : r \in SeqsUpTo(GitHubItems, MaxLen)}

NewsItems == [title : {Null, "[Removed]", "T"}, url : {"", UrlA},
              name : {Missing, "BBC"}]
NewsResponses ==
    {[ok |-> FALSE, status |-> "ok", articles |-> <<>>],
     [ok |-> TRUE, status |-> "error", articles |-> <<>>]}
    \cup {[ok |-> TRUE, status |-> "ok", articles |-> a] :
             a \in SeqsUpTo(NewsItems, MaxLen)}

\* --------------------------------------- raw responses, inside run()
RunHN ==
    {[ok |-> FALSE, hits |-> <<>>],
     [ok |-> TRUE, hits |-> <<>>],
     [ok |-> TRUE, hits |-> <<[title |-> "T", url |-> UrlA, points |-> 1]>>],
     [ok |-> TRUE, hits |-> <<[title |-> "T", url |-> UrlB, points |-> NoneP]>>],
     [ok |-> TRUE, hits |-> <<[title |-> "T", url |-> UrlB, points |-> 2],
                              [title |-> "U", url |-> UrlB, points |-> 2]>>]}
RunRedditSub ==
    {[ok |-> FALSE, children |-> <<>>],
     [ok |-> TRUE, children |->
         <<[title |-> "T", is_self |-> FALSE, permalink |-> "/p", score |-> 1]>>]}
RunReddit == [1..Len(subreddits) -> RunRedditSub]
RunArxiv ==
    {[ok |-> FALSE, entries |-> <<>>],
     [ok |-> TRUE, entries |-> <<[title |-> "T", id |-> UrlA]>>]}
RunGitHub ==
    {[ok |-> FALSE, items |-> <<>>],
     [ok |-> TRUE, items |-> <<[name |-> "repo", description |-> Null,
                                html_url |-> UrlB, stargazers_count |-> 2]>>]}
RunNews ==
    {[ok |-> FALSE, status |-> "ok", articles |-> <<>>],
     [ok |-> TRUE, status |-> "error", articles |-> <<>>],
     [ok |-> TRUE, status |-> "ok", articles |->
         <<[title |-> "T", url |-> UrlA, name |-> "BBC"]>>]}

\* ------------------------------------------------------------- __init__
\* a fresh process: the settings are read from the environment
Construct ==
    /\ email_user \in EnvValues
    /\ email_password \in EnvValues
    /\ recipient_email \in EnvValues
    /\ newsapi_key \in {Null, "key"}
    /\ pc = "run"
    /\ called = {}
    /\ fetched = NoFetch
    /\ failed = {}
    /\ all_trends = <<>>
    /\ trends = <<>>
    /\ sent = "unset"
    /\ success = "unset"

Init ==
    /\ Construct
    /\ delivered = {}
    /\ prev = NoPrev
    /\ raw = <<>>

\* ------------------------------------------------------------------ run
\* variant: any(...) in place of all(...)
ConfigAny(u, p, r) == Truthy(u) \/ Truthy(p) \/ Truthy(r)

\* all([email_user, email_password, recipient_email])
ConfigOk(u, p, r) == Truthy(u) /\ Truthy(p) /\ Truthy(r)

Validate ==
    /\ pc = "run"
    /\ IF ConfigOk(email_user, email_password, recipient_email)
         THEN pc' = "hn" /\ success' = success
         ELSE pc' = "done" /\ success' = "False"
    /\ UNCHANGED <<email_user, email_password, recipient_email, newsapi_key,
                   called, fetched, failed, all_trends, trends, sent, delivered,
                   prev, raw>>

\* variant: all_trends = result in place of all_trends.extend(result)
ExtendedAssign(list, result) == result

\* all_trends.extend(result)
Extended(list, result) == list \o result

Collect(adapter, raised, result, next) ==
    /\ all_trends' = Extended(all_trends, result)
    /\ fetched' = [fetched EXCEPT ![adapter] = result]
    /\ failed' = IF raised THEN failed \cup {adapter} ELSE failed
    /\ called' = called \cup {adapter}
    /\ pc' = next
    /\ UNCHANGED <<email_user, email_password, recipient_email, newsapi_key,
                   trends, sent, success, delivered, prev, raw>>

GetHackerNews ==
    /\ pc = "hn"
    /\ \E resp \in RunHN : Collect("hn", HNRaises(resp), get_hacker_news_ai_posts(resp), "reddit")

GetReddit ==
    /\ pc = "reddit"
    /\ \E resps \in RunReddit :
          Collect("reddit", RedditRaises(resps), get_reddit_ml_posts(resps), "arxiv")

GetArxiv ==
    /\ pc = "arxiv"
    /\ \E resp \in RunArxiv :
          Collect("arxiv", ArxivRaises(resp), get_arxiv_papers(resp), "github")

GetGitHub ==
    /\ pc = "github"
    /\ \E resp \in RunGitHub :
          Collect("github", GitHubRaises(resp), get_github_trending(resp), "newsapi")

GetNewsApi ==
    /\ pc = "newsapi"
    /\ \E resp \in RunNews :
          Collect("newsapi", NewsRaises(newsapi_key, resp),
                  get_newsapi_articles(newsapi_key, resp), "sort")

Rev(s) == [i \in 1..Len(s) |-> s[Len(s) + 1 - i]]

\* variant: sorted(all_trends, key=points)[::-1][:20], which reverses ties
RankedByReversal(list) == Top(SortDesc(Rev(list)))

\* all_trends.sort(...); return all_trends[:20]
Ranked(list) == Top(SortDesc(list))

\* variant: run() returns early on an empty list
AfterCompileSkipEmpty(list) == IF list = <<>> THEN "done" ELSE "send"

\* run(): send_email(trends) follows compile_trends() unconditionally
AfterCompile(list) == "send"

SortAndTruncate ==
    /\ pc = "sort"
    /\ IF SortRaises(all_trends)
         THEN pc' = "raised" /\ trends' = trends
         ELSE pc' = AfterCompile(Ranked(all_trends)) /\ trends' = Ranked(all_trends)
    /\ UNCHANGED <<email_user, email_password, recipient_email, newsapi_key,
                   called, fetched, failed, all_trends, sent, success, delivered,
                   prev, raw>>

\* create_email_content: trend['points'] > 0 raises TypeError on None
ContentRaises(list) == \E i \in 1..Len(list) : list[i].points = NoneP

\* send_email: True after server.send_message, False from the except branch
SendResult(smtp, list) == IF smtp /\ ~ContentRaises(list) THEN "True" ELSE "False"

\* variant: return True
ReturnedTrue(result) == "True"

\* run(): return success
Returned(result) == result

\* send_email(trends) and the rest of run(); smtp = FALSE: the SMTP
\* session raised
SendEmail ==
    /\ pc = "send"
    /\ called' = called \cup {"send_email"}
    /\ \E smtp \in BOOLEAN :
          /\ sent' = SendResult(smtp, trends)
          /\ success' = Returned(sent')
          /\ delivered' = IF sent' = "True" THEN delivered \cup UrlsOf(trends)
                          ELSE delivered
    /\ pc' = "done"
    /\ UNCHANGED <<email_user, email_password, recipient_email, newsapi_key,
                   fetched, failed, all_trends, trends, prev, raw>>

\* the scheduler starts the next process
Restart ==
    /\ pc \in {"done", "raised"}
    /\ prev' = IF success = "True" THEN [valid |-> TRUE, fetched |-> fetched]
               ELSE NoPrev
    /\ email_user' \in EnvValues
    /\ email_password' \in EnvValues
    /\ recipient_email' \in EnvValues
    /\ newsapi_key' \in {Null, "key"}
    /\ pc' = "run"
    /\ called' = {}
    /\ fetched' = NoFetch
    /\ failed' = {}
    /\ all_trends' = <<>>
    /\ trends' = <<>>
    /\ sent' = "unset"
    /\ success' = "unset"
    /\ UNCHANGED <<delivered, raw>>

Next ==
    \/ Validate
    \/ GetHackerNews
    \/ GetReddit
    \/ GetArxiv
    \/ GetGitHub
    \/ GetNewsApi
    \/ SortAndTruncate
    \/ SendEmail
    \/ Restart

Spec == Init /\ [][Next]_vars


\* ------------------------------------------- one adapter on its own
Configured ==
    /\ email_user = "set"
    /\ email_password = "set"
    /\ recipient_email = "set"
    /\ called = {}
    /\ fetched = NoFetch
    /\ failed = {}
    /\ all_trends = <<>>
    /\ trends = <<>>
    /\ sent = "unset"
    /\ success = "unset"
    /\ delivered = {}
    /\ prev = NoPrev

InitAdapters ==
    /\ Configured
    /\ \/ pc = "hn" /\ raw \in HNResponses /\ newsapi_key = Null
       \/ pc = "reddit" /\ raw \in RedditResponses /\ newsapi_key = Null
       \/ pc = "arxiv" /\ raw \in ArxivResponses /\ newsapi_key = Null
       \/ pc = "github" /\ raw \in GitHubResponses /\ newsapi_key = Null
       \/ pc = "newsapi" /\ raw \in NewsResponses /\ newsapi_key \in {Null, "key"}

CallHackerNews ==
    /\ pc = "hn"
    /\ Collect("hn", HNRaises(raw), get_hacker_news_ai_posts(raw), "returned")

CallReddit ==
    /\ pc = "reddit"
    /\ Collect("reddit", RedditRaises(raw), get_reddit_ml_posts(raw), "returned")

CallArxiv ==
    /\ pc = "arxiv"
    /\ Collect("arxiv", ArxivRaises(raw), get_arxiv_papers(raw), "returned")

CallGitHub ==
    /\ pc = "github"
    /\ Collect("github", GitHubRaises(raw), get_github_trending(raw), "returned")

CallNewsApi ==
    /\ pc = "newsapi"
    /\ Collect("newsapi", NewsRaises(newsapi_key, raw),
               get_newsapi_articles(newsapi_key, raw), "returned")

NextAdapters ==
    \/ CallHackerNews
    \/ CallReddit
    \/ CallArxiv
    \/ CallGitHub
    \/ CallNewsApi

SpecAdapters == InitAdapters /\ [][NextAdapters]_vars

\* --------------------------------- compile_trends on larger candidates
\* a full page of Hacker News hits and of every subreddit
FullHN ==
    [ok |-> TRUE,
     hits |-> [i \in 1..HNPageSize |->
                 [title |-> "T" \o ToString(i),
                  url |-> IF i % 2 = 0 THEN UrlA ELSE UrlB,
                  points |-> i % (MaxPoints + 1)]]]
FullReddit ==
    [k \in 1..Len(subreddits) |->
       [ok |-> TRUE,
        children |-> [i \in 1..RedditPage |->
                        [title |-> "T" \o ToString(i), is_self |-> FALSE,
                         permalink |-> "/p" \o ToString(i),
                         score |-> (i + k) % (MaxPoints + 1)]]]]

SelectHN ==
    SeqsUpTo({Item("T", u, p, "Hacker News") :
                 u \in {UrlA, UrlB}, p \in (0..MaxPoints) \cup {NoneP}}, MaxCand)
    \cup {get_hacker_news_ai_posts(FullHN)}
SelectReddit == {<<>>, get_reddit_ml_posts(FullReddit)}
SelectGitHub ==
    SeqsUpTo({Item("repo", u, p, "GitHub Trending") :
                 u \in {UrlA, UrlB}, p \in 0..MaxPoints}, 1)

InitSelect ==
    /\ email_user = "set"
    /\ email_password = "set"
    /\ recipient_email = "set"
    /\ newsapi_key = Null
    /\ pc = "sort"
    /\ called = Adapters
    /\ failed = {}
    /\ \E h \in SelectHN, r \in SelectReddit, g \in SelectGitHub :
          /\ fetched = [NoFetch EXCEPT !["hn"] = h, !["reddit"] = r, !["github"] = g]
          /\ all_trends = h \o r \o g
    /\ trends = <<>>
    /\ sent = "unset"
    /\ success = "unset"
    /\ delivered = {}
    /\ prev = NoPrev
    /\ raw = <<>>

NextSelect == SortAndTruncate

SpecSelect == InitSelect /\ [][NextSelect]_vars


\* ============================================================ properties
Compiled == pc \in {"send", "done"} /\ "newsapi" \in called

\* C1: the list selected for the digest contains no item whose url is in
\* the delivery ledger (the urls already delivered by earlier runs).
C1_NoDeliveredUrlSelected ==
    pc = "send" => \A i \in 1..Len(trends) : trends[i].url \notin delivered

\* C2: when run() is executed twice in succession, the adapters return the
\* same items both times and both sends succeed, the selected list of the
\* second run is empty.
C2_SecondRunEmpty ==
    (pc = "done" /\ success = "True" /\ prev.valid /\ prev.fetched = fetched)
        => trends = <<>>

\* C3 as stated: when the selected list is empty the run ends without
\* send_email having been invoked.
C3_EmptyExit ==
    (Compiled /\ pc = "done" /\ trends = <<>>) => "send_email" \notin called

\* C3 amended: when the selected list is empty send_email is still invoked
\* with the empty list, run() returns what send_email returned, and the
\* ledger is not mutated.
C3_EmptyStillSends ==
    /\ [](  (Compiled /\ pc = "done" /\ trends = <<>>)
             => ("send_email" \in called /\ sent \in {"True", "False"}
                 /\ success = sent))
    /\ [][(pc = "send" /\ trends = <<>>) => delivered' = delivered]_vars

C3_Witness ==
    Compiled /\ pc = "done" /\ trends = <<>> /\ sent = "True"

\* C4: when send_email returns False the run ends in failure and the ledger
\* after the run equals the ledger before it.
C4_FailedSendKeepsLedger ==
    [][(pc = "send" /\ sent' = "False")
          => (pc' = "done" /\ success' = "False" /\ delivered' = delivered)]_vars

C4_Witness ==
    /\ pc = "done" /\ sent = "False" /\ success = "False"
    /\ \E i \in 1..Len(trends) : trends[i].url \notin delivered

\* C5: with a required notification setting missing, run() returns failure
\* without invoking any source adapter or send_email; no fetch precedes the
\* configuration check.
C5_MissingConfigRefuses ==
    (pc # "run" /\ \E v \in {email_user, email_password, recipient_email} :
                      v \in {Null, ""})
        => (pc = "done" /\ success = "False" /\ called = {})

C5_Witness ==
    /\ pc = "done" /\ success = "False" /\ called = {}
    /\ email_user = "set" /\ email_password = "" /\ recipient_email = "set"

\* position of candidate i in a stable descending order by points
Rank(s, i) ==
    Cardinality({j \in 1..Len(s) : s[j].points > s[i].points})
    + Cardinality({j \in 1..(i - 1) : s[j].points = s[i].points}) + 1

\* C6: the selected list has at most 20 items and is ordered by popularity
\* descending, equal popularity staying in candidate order.
C6_TopNStableDescending ==
    pc = "send" =>
        /\ Len(trends) <= TopN
        /\ \A k \in 1..(Len(trends) - 1) : trends[k].points >= trends[k + 1].points
        /\ \A i \in 1..Len(all_trends) :
              Rank(all_trends, i) <= Len(trends)
                  => trends[Rank(all_trends, i)] = all_trends[i]

C6_Witness ==
    /\ pc = "send" /\ Len(all_trends) > TopN /\ Len(trends) = TopN
    /\ \E k \in 1..(Len(trends) - 1) :
          trends[k].points = trends[k + 1].points /\ trends[k] # trends[k + 1]

Contribution(a) == IF a \in failed THEN <<>> ELSE fetched[a]

\* C7: whichever adapters fail, every adapter is still invoked, the
\* candidate sequence holds every item of each adapter that did not fail,
\* and the run goes on to the ranking step.
C7_FailureIsolation ==
    (pc \in {"sort", "send", "done", "raised"} /\ "newsapi" \in called)
        => /\ Adapters \subseteq called
           /\ all_trends = Contribution("hn") \o Contribution("reddit")
                           \o Contribution("arxiv") \o Contribution("github")
                           \o Contribution("newsapi")

C7_Witness ==
    /\ pc = "sort" /\ {"hn", "arxiv"} \subseteq failed
    /\ "github" \notin failed /\ fetched["github"] # <<>>
    /\ "reddit" \notin failed /\ fetched["reddit"] # <<>>

\* C8: in the Reddit adapter the items of every sub-query that succeeded
\* are in the adapter's result, whether or not another sub-query failed.
C8_SubQueryIsolation ==
    (pc = "returned" /\ called = {"reddit"})
        => \A k \in 1..Len(subreddits) :
              ~RedditSubFails(raw[k])
                  => LET posts == RedditPosts(raw[k].children, subreddits[k]) IN
                     \A i \in 1..Len(posts) :
                         \E j \in 1..Len(all_trends) : all_trends[j] = posts[i]

\* C9: no item with an empty title or an empty url enters the candidate
\* sequence.
C9_NoEmptyTitleOrUrl ==
    \A i \in 1..Len(all_trends) :
        Truthy(all_trends[i].title) /\ Truthy(all_trends[i].url)

\* C10: the selected list contains at most one item per url.
C10_OneItemPerUrl ==
    Compiled => \A i, j \in 1..Len(trends) :
                    i # j => trends[i].url # trends[j].url

====
